---- MODULE Spec2Model ----
(***************************************************************************)
(* pw_ai_foundation: the logging configurator (utils/logging.py) and the   *)
(* validated base model (models/base.py).                                  *)
(*                                                                         *)
(* configure_logging is one call to logging.basicConfig without force=True; *)
(* BaseModel is a pydantic model with validate_assignment, use_enum_values *)
(* and arbitrary_types_allowed, validating in pydantic's default (lax)     *)
(* mode, and to_dict is model_dump().  The library calls are part of the   *)
(* operations and are modelled by what they do to the state.               *)
(***************************************************************************)
EXTENDS Integers, Sequences, FiniteSets, TLC

VARIABLES handlers, rootLevel, lastOp, okCalls, emitted,
          inst, built, lastM, dumped, latest

logVars == <<handlers, rootLevel, lastOp, okCalls, emitted>>
modelVars == <<inst, built, lastM, dumped, latest>>
vars == <<handlers, rootLevel, lastOp, okCalls, emitted,
          inst, built, lastM, dumped, latest>>

----------------------------------------------------------------------------
(* Bounds *)

\* most handlers the root logger holds
MaxHandlers == 2
\* the count of successful configure_logging calls saturates here
MaxCalls == 2

----------------------------------------------------------------------------
(* The logging facility as configure_logging uses it *)

\* the five names of the docstring
LevelNames == {"DEBUG", "INFO", "WARNING", "ERROR", "CRITICAL"}

\* numeric severities of the five names
LevelNo == [DEBUG |-> 10, INFO |-> 20, WARNING |-> 30, ERROR |-> 40, CRITICAL |-> 50]

Severities == {LevelNo[n] : n \in LevelNames}

\* strings passed as level
LevelInputs == {"DEBUG", "debug", "INFO", "WARNING", "ERROR", "CRITICAL",
                "WARN", "FATAL", "NOTSET", "basic_format", "_styles", "TRACE"}

\* level.upper() on the strings above
Upper(s) ==
  CASE s = "debug" -> "DEBUG"
    [] s = "basic_format" -> "BASIC_FORMAT"
    [] s = "_styles" -> "_STYLES"
    [] OTHER -> s

Missing == [t |-> "missing", v |-> ""]

\* getattr(logging, name) for an upper-case name: the module's upper-case
\* attributes are the level numbers, BASIC_FORMAT (a string) and _STYLES (a
\* dict); any other name has no attribute
getattr(name) ==
  CASE name \in LevelNames -> [t |-> "int", v |-> LevelNo[name]]
    [] name = "WARN" -> [t |-> "int", v |-> LevelNo["WARNING"]]
    [] name = "FATAL" -> [t |-> "int", v |-> LevelNo["CRITICAL"]]
    [] name = "NOTSET" -> [t |-> "int", v |-> 0]
    [] name = "BASIC_FORMAT" -> [t |-> "str", v |-> "%(levelname)s:%(name)s:%(message)s"]
    [] name = "_STYLES" -> [t |-> "dict", v |-> ""]
    [] OTHER -> Missing

\* Logger.setLevel's check of its argument: an int is taken as it is, a
\* string must be a registered level name, anything else is a TypeError
checkLevel(val) ==
  CASE val.t = "int" -> [err |-> "", level |-> val.v]
    [] val.t = "str" /\ val.v \in LevelNames -> [err |-> "", level |-> LevelNo[val.v]]
    [] val.t = "str" /\ val.v \notin LevelNames -> [err |-> "ValueError", level |-> 0]
    [] OTHER -> [err |-> "TypeError", level |-> 0]

None == "None"
DefaultFormat == "%(asctime)s - %(name)s - %(levelname)s - %(message)s"
CustomFormat == "%(levelname)s: %(message)s"
PlainFormat == "plain text"

\* strings passed as format_string
FormatInputs == {None, CustomFormat, PlainFormat}

\* logging.Formatter validates a %-style format: it must hold a %(field)
FormatValid(fs) == fs \in {DefaultFormat, CustomFormat}

\* format_string after the default is substituted
ResolveFormat(format_string) ==
  IF format_string = None THEN DefaultFormat ELSE format_string

\* an id no handler of hs carries (object identity of a new handler)
FreshId(hs) ==
  CHOOSE i \in 1..(MaxHandlers + 1) :
    /\ \A k \in 1..Len(hs) : hs[k].id # i
    /\ \A j \in 1..(MaxHandlers + 1) : (\A k \in 1..Len(hs) : hs[k].id # j) => i <= j

\* logging.StreamHandler(sys.stdout): no formatter yet, level NOTSET
StreamHandler(i) == [kind |-> "stdout", fmt |-> "", level |-> 0, id |-> i]

\* the handler of pytest's caplog fixture, at level DEBUG
CaptureHandler(i) == [kind |-> "capture", fmt |-> "caplog", level |-> LevelNo["DEBUG"], id |-> i]

setFormatter(h, fs) == IF h.fmt = "" THEN [h EXCEPT !.fmt = fs] ELSE h

\* basicConfig with the level argument dropped: the handlers are installed
\* and the root logger's level is left as it was
basicConfig_level_dropped(hs, lvl, levelArg, fs, new) ==
  IF Len(hs) # 0
  THEN [handlers |-> hs, level |-> lvl, outcome |-> "ok"]
  ELSE IF ~FormatValid(fs)
  THEN [handlers |-> hs, level |-> lvl, outcome |-> "ValueError"]
  ELSE [handlers |-> hs \o [k \in 1..Len(new) |-> setFormatter(new[k], fs)],
        level |-> lvl, outcome |-> "ok"]

\* logging.basicConfig(level=levelArg, format=fs, handlers=new) without force:
\* it does nothing at all when the root logger already has a handler;
\* otherwise it builds the formatter (which may raise), adds the handlers,
\* and only then sets the level (which may raise)
basicConfig(hs, lvl, levelArg, fs, new) ==
  IF Len(hs) # 0
  THEN [handlers |-> hs, level |-> lvl, outcome |-> "ok"]
  ELSE IF ~FormatValid(fs)
  THEN [handlers |-> hs, level |-> lvl, outcome |-> "ValueError"]
  ELSE LET added == hs \o [k \in 1..Len(new) |-> setFormatter(new[k], fs)]
           chk == checkLevel(levelArg)
       IN IF chk.err # ""
          THEN [handlers |-> added, level |-> lvl, outcome |-> chk.err]
          ELSE [handlers |-> added, level |-> chk.level, outcome |-> "ok"]

\* the result of configure_logging(level, format_string) on root logger state
\* (hs, lvl): the attribute lookup comes first and may raise AttributeError
configure_result(hs, lvl, level, format_string) ==
  LET attr == getattr(Upper(level))
  IN IF attr = Missing
     THEN [handlers |-> hs, level |-> lvl, outcome |-> "AttributeError"]
     ELSE basicConfig(hs, lvl, attr, ResolveFormat(format_string),
                      <<StreamHandler(FreshId(hs))>>)

configure_logging(level, format_string) ==
  LET r == configure_result(handlers, rootLevel, level, format_string)
  IN /\ handlers' = r.handlers
     /\ rootLevel' = r.level
     /\ lastOp' = [op |-> "configure", level |-> level, fmt |-> format_string,
                   outcome |-> r.outcome, hadHandlers |-> (Len(handlers) # 0),
                   created |-> IF getattr(Upper(level)) = Missing THEN 0
                               ELSE FreshId(handlers)]
     /\ okCalls' = IF r.outcome = "ok" /\ okCalls < MaxCalls THEN okCalls + 1 ELSE okCalls
     /\ UNCHANGED <<emitted>>
     /\ UNCHANGED modelVars

NoOp(name) == [op |-> name, level |-> "", fmt |-> "", outcome |-> "",
               hadHandlers |-> FALSE, created |-> 0]

\* logging.getLogger().handlers.clear()
handlers_clear ==
  /\ handlers' = <<>>
  /\ lastOp' = NoOp("clear")
  /\ UNCHANGED <<rootLevel, okCalls, emitted>>
  /\ UNCHANGED modelVars

\* a test under the caplog fixture with caplog.at_level(logging.DEBUG): one
\* more capture handler is on the root logger and the root logger's level is
\* DEBUG
caplog_at_level ==
  /\ Len(handlers) < MaxHandlers
  /\ handlers' = Append(handlers, CaptureHandler(FreshId(handlers)))
  /\ rootLevel' = LevelNo["DEBUG"]
  /\ lastOp' = NoOp("caplog")
  /\ UNCHANGED <<okCalls, emitted>>
  /\ UNCHANGED modelVars

Loggers == {"root", "test"}

\* Logger.getEffectiveLevel: "test" has no level of its own, so the root
\* logger's level decides for both
getEffectiveLevel(logger, lvl) == lvl

\* Logger.callHandlers: every root handler whose level admits the record
\* writes one line; with no handler at all the last-resort handler writes
\* warnings and above to stderr
callHandlers(hs, logger, sev) ==
  IF Len(hs) = 0
  THEN IF sev >= LevelNo["WARNING"]
       THEN <<[kind |-> "stderr", fmt |-> "%(message)s", logger |-> logger, sev |-> sev]>>
       ELSE <<>>
  ELSE LET admits(h) == sev >= h.level
           hit == SelectSeq(hs, admits)
       IN [k \in 1..Len(hit) |->
             [kind |-> hit[k].kind, fmt |-> hit[k].fmt, logger |-> logger, sev |-> sev]]

\* logger.debug(...), logger.info(...), ...: the lines the record produces
log_lines(hs, lvl, logger, sev) ==
  IF sev >= getEffectiveLevel(logger, lvl) THEN callHandlers(hs, logger, sev) ELSE <<>>

\* the lines among them that reach standard output or the capture
output_lines(lines) ==
  LET visible(l) == l.kind # "stderr"
  IN SelectSeq(lines, visible)

emit(logger, sev) ==
  /\ emitted' = [logger |-> logger, sev |-> sev,
                 lines |-> log_lines(handlers, rootLevel, logger, sev)]
  /\ UNCHANGED <<handlers, rootLevel, lastOp, okCalls>>
  /\ UNCHANGED modelVars

InitLogging ==
  /\ handlers = <<>>
  /\ rootLevel = LevelNo["WARNING"]
  /\ lastOp = NoOp("init")
  /\ okCalls = 0
  /\ emitted = [logger |-> "", sev |-> 0, lines |-> <<>>]

----------------------------------------------------------------------------
(* The validated model: a record type declared on BaseModel *)

\* The record type declared on BaseModel: the name and value fields of the
\* tests' TestModel, and an enum field with a declared default, which is what
\* use_enum_values=True acts on:
\*   class Color(Enum): RED = "red"; BLUE = "blue"
\*   class TestModel(BaseModel): name: str; value: int; color: Color = Color.RED
Fields == {"name", "value", "color"}

FieldType == [name |-> "str", value |-> "int", color |-> "enum"]

StrV(s) == [t |-> "str", v |-> s]
IntV(n) == [t |-> "int", v |-> n]
Member(m) == [t |-> "enum", v |-> m]

\* the underlying values of the members of Color
EnumValue == [RED |-> "red", BLUE |-> "blue"]

Absent == [t |-> "absent", v |-> ""]
Invalid == [t |-> "invalid", v |-> ""]

HasDefault(f) == f = "color"

\* the declared default of a field, as written in the class body
Default(f) == Member("RED")

\* values callers pass for each field
Inputs == [name |-> {StrV("test"), StrV("42"), IntV(42)},
           value |-> {IntV(42), IntV(7), StrV("42"), StrV("not_an_int")},
           color |-> {Member("RED"), Member("BLUE"), StrV("red"), IntV(7)}]

\* the strings that parse as an integer, among those above
StrToInt == [s \in {"42"} |-> 42]

\* lax-mode validation of an int field: an int is kept, a string that parses
\* as an integer becomes that integer, anything else is an error
validate_int(v) ==
  CASE v.t = "int" -> v
    [] v.t = "str" /\ v.v \in DOMAIN StrToInt -> IntV(StrToInt[v.v])
    [] OTHER -> Invalid

\* validation of a str field: only a string is accepted
validate_str(v) == IF v.t = "str" THEN v ELSE Invalid

\* validation of a Color field under use_enum_values=True: a member or the
\* underlying value of a member is accepted, and the underlying value is kept
validate_enum(v) ==
  CASE v.t = "enum" -> StrV(EnumValue[v.v])
    [] v.t = "str" /\ (\E m \in DOMAIN EnumValue : EnumValue[m] = v.v) -> v
    [] OTHER -> Invalid

validate_field(f, v) ==
  CASE FieldType[f] = "int" -> validate_int(v)
    [] FieldType[f] = "str" -> validate_str(v)
    [] FieldType[f] = "enum" -> validate_enum(v)

\* validation of the keyword arguments of the constructor: a supplied value
\* is validated, a field left out takes its declared default as it is (a
\* default is not validated), and a required field left out is an error
validate_model(kw) ==
  [f \in Fields |->
     IF kw[f] # Absent THEN validate_field(f, kw[f])
     ELSE IF HasDefault(f) THEN Default(f) ELSE Invalid]

NoInst == [f \in Fields |-> Absent]

\* built holds the keyword arguments the instance was constructed from while
\* nothing has been assigned to it since; latest holds, per field, the value
\* the construction or the latest successful assignment stored

NoCall == [op |-> "none", field |-> "", value |-> Absent, kwargs |-> NoInst,
           outcome |-> ""]

\* Record(**kw)
construct(kw) ==
  LET r == validate_model(kw)
      ok == \A f \in Fields : r[f] # Invalid
  IN /\ inst' = IF ok THEN r ELSE inst
     /\ latest' = IF ok THEN r ELSE latest
     /\ built' = IF ok THEN kw ELSE built
     /\ lastM' = [op |-> "construct", field |-> "", value |-> Absent, kwargs |-> kw,
                  outcome |-> IF ok THEN "ok" ELSE "ValidationError"]
     /\ UNCHANGED dumped
     /\ UNCHANGED logVars

\* an assignment that stores the value before it validates it
setattr_store_first(m, f, v) ==
  IF validate_field(f, v) = Invalid THEN [m EXCEPT ![f] = v]
  ELSE [m EXCEPT ![f] = validate_field(f, v)]

\* the fields of instance m after m.f = v under validate_assignment=True:
\* the value is validated first and stored only when it is valid
setattr(m, f, v) ==
  IF validate_field(f, v) = Invalid THEN m
  ELSE [m EXCEPT ![f] = validate_field(f, v)]

\* instance.f = v
assign(f, v) ==
  LET ok == validate_field(f, v) # Invalid
  IN /\ inst # NoInst
     /\ inst' = setattr(inst, f, v)
     /\ latest' = IF ok THEN [latest EXCEPT ![f] = validate_field(f, v)] ELSE latest
     /\ built' = NoInst
     /\ lastM' = [op |-> "assign", field |-> f, value |-> v, kwargs |-> NoInst,
                  outcome |-> IF ok THEN "ok" ELSE "ValidationError"]
     /\ UNCHANGED dumped
     /\ UNCHANGED logVars

\* a dump that leaves out the fields that hold their declared default
model_dump_exclude_defaults(m) ==
  [f \in {g \in Fields : ~(HasDefault(g) /\ m[g] = Default(g))} |-> m[f]]

\* model_dump() in python mode: one key per declared field, each value as it
\* is stored
model_dump(m) == [f \in Fields |-> m[f]]

\* instance.to_dict()
to_dict ==
  /\ inst # NoInst
  /\ dumped' = model_dump(inst)
  /\ lastM' = [op |-> "to_dict", field |-> "", value |-> Absent, kwargs |-> NoInst,
               outcome |-> "ok"]
  /\ UNCHANGED <<inst, built, latest>>
  /\ UNCHANGED logVars

InitModel ==
  /\ inst = NoInst
  /\ built = NoInst
  /\ lastM = NoCall
  /\ dumped = [f \in {} |-> Absent]
  /\ latest = NoInst

Init == InitLogging /\ InitModel

Configure == \E level \in LevelInputs, fs \in FormatInputs : configure_logging(level, fs)

Emit == \E logger \in Loggers, sev \in Severities : emit(logger, sev)

NextLogging == Configure \/ handlers_clear \/ caplog_at_level \/ Emit

SpecLogging == Init /\ [][NextLogging]_vars

Construct ==
  \E a \in Inputs["name"] \cup {Absent}, b \in Inputs["value"] \cup {Absent},
     c \in Inputs["color"] \cup {Absent} :
    construct([f \in Fields |-> CASE f = "name" -> a [] f = "value" -> b [] f = "color" -> c])

Assign == \E f \in Fields : \E v \in Inputs[f] : assign(f, v)

ToDict == to_dict

NextModel == Construct \/ Assign \/ ToDict

SpecModel == Init /\ [][NextModel]_vars

Next == NextLogging \/ NextModel

Spec == Init /\ [][Next]_vars

----------------------------------------------------------------------------
(* Properties of the logging configurator *)

\* the last operation on the logging configuration was a configure_logging
\* call that returned without raising
ConfigureSucceeded == lastOp.op = "configure" /\ lastOp.outcome = "ok"

\* the severity a valid level string names
LevelOf(level) == LevelNo[Upper(level)]

\* C1: after two or more successful configure_logging calls the root
\* logger's level is the level of the most recent call and the installed
\* stdout handler carries the format of the most recent call.
C1_LastCallWins ==
  (ConfigureSucceeded /\ okCalls >= 2 /\ Upper(lastOp.level) \in LevelNames)
    => /\ rootLevel = LevelOf(lastOp.level)
       /\ \E k \in 1..Len(handlers) :
            handlers[k].kind = "stdout" /\ handlers[k].fmt = ResolveFormat(lastOp.fmt)

\* C2: after every successful configure_logging call the root logger holds
\* exactly one handler, the stdout handler that this call created.
C2_ExactlyOneHandler ==
  ConfigureSucceeded
    => handlers = <<[kind |-> "stdout", fmt |-> ResolveFormat(lastOp.fmt),
                     level |-> 0, id |-> lastOp.created]>>

\* C3: configure_logging(level=s) succeeds if and only if s, compared
\* case-insensitively, is one of the five level names.
C3_OnlyFiveNamesAccepted ==
  (lastOp.op = "configure" /\ lastOp.fmt = None)
    => (lastOp.outcome = "ok" <=> Upper(lastOp.level) \in LevelNames)

\* the last configure_logging call succeeded on a root logger without
\* handlers, with one of the five level names
FirstConfigured ==
  ConfigureSucceeded /\ ~lastOp.hadHandlers /\ Upper(lastOp.level) \in LevelNames

\* C9: configure_logging(L) on a root logger without handlers, L one of the
\* five names, sets the root level to L, and a record emitted afterwards
\* through any logger is written if and only if its severity is at least L.
C9_ThresholdAfterFirstConfigure ==
  [][ /\ FirstConfigured' => rootLevel' = LevelOf(lastOp'.level)
      /\ (FirstConfigured /\ emitted' # emitted)
           => (output_lines(emitted'.lines) # <<>>
                 <=> emitted'.sev >= LevelOf(lastOp.level)) ]_vars

\* configure_logging("INFO") on a root logger without handlers, then an info
\* record written through the installed stdout handler
C9_Witness ==
  /\ FirstConfigured
  /\ lastOp.level = "INFO"
  /\ rootLevel = LevelNo["INFO"]
  /\ emitted.logger = "test"
  /\ emitted.sev = LevelNo["INFO"]
  /\ Len(emitted.lines) = 1
  /\ emitted.lines[1].kind = "stdout"

\* C10: a configure_logging call that raises leaves the root logger's
\* handler list and level as they were before the call.
C10_FailedConfigureChangesNothing ==
  [][ (lastOp'.op = "configure" /\ lastOp'.outcome # "ok")
        => (handlers' = handlers /\ rootLevel' = rootLevel) ]_vars

----------------------------------------------------------------------------
(* Properties of the validated model *)

\* a value whose type is not the declared type of the field; the underlying
\* value of an enum member counts as compatible with the enum field
Incompatible(f, v) ==
  /\ v # Absent
  /\ v.t # FieldType[f]
  /\ ~(FieldType[f] = "enum" /\ v.t = "str")

\* C4: construction and assignment with a value of an incompatible type
\* always fail with a validation error; a string for the integer field is
\* rejected, numeric-looking or not.
C4_IncompatibleRejected ==
  /\ (lastM.op = "construct" /\ \E f \in Fields : Incompatible(f, lastM.kwargs[f]))
       => lastM.outcome = "ValidationError"
  /\ (lastM.op = "assign" /\ Incompatible(lastM.field, lastM.value))
       => lastM.outcome = "ValidationError"

\* C5: an assignment that fails validation raises and leaves every field of
\* the instance as it was; one that succeeds changes only the assigned field.
C5_AssignOnlyOnSuccess ==
  [][ lastM'.op = "assign"
        => /\ lastM'.outcome \in {"ok", "ValidationError"}
           /\ lastM'.outcome = "ValidationError" => inst' = inst
           /\ lastM'.outcome = "ok"
                => \A g \in Fields \ {lastM'.field} : inst'[g] = inst[g] ]_vars

\* a failed assignment of "not_an_int" to value, after an earlier successful
\* assignment of 7 to it
C5_Witness ==
  /\ lastM.op = "assign"
  /\ lastM.outcome = "ValidationError"
  /\ lastM.field = "value"
  /\ lastM.value = StrV("not_an_int")
  /\ built = NoInst
  /\ inst["value"] = IntV(7)
  /\ inst["name"] = StrV("test")

\* an enum member replaced by its underlying value
EnumReduce(v) == IF v.t = "enum" THEN StrV(EnumValue[v.v]) ELSE v

\* C6: to_dict right after construction returns exactly the supplied
\* mapping (same keys, same values), enum members replaced by their values.
C6_RoundTrip ==
  (lastM.op = "to_dict" /\ built # NoInst)
    => /\ DOMAIN dumped = {f \in Fields : built[f] # Absent}
       /\ \A f \in DOMAIN dumped : dumped[f] = EnumReduce(built[f])

\* C7: the enum field is stored, and reported by to_dict, as its underlying
\* value and never as an enum member.
C7_EnumStoredAsValue ==
  /\ inst # NoInst => inst["color"].t # "enum"
  /\ lastM.op = "to_dict" => dumped["color"].t # "enum"

\* C8: to_dict returns one key per declared field, each with the value the
\* construction or the latest successful assignment stored; it leaves the
\* instance as it was, and two calls in a row return equal mappings.
C8_ToDictSnapshot ==
  [][ /\ lastM'.op = "to_dict"
           => /\ DOMAIN dumped' = Fields
              /\ \A f \in Fields : dumped'[f] = latest'[f]
              /\ inst' = inst
      /\ (lastM.op = "to_dict" /\ lastM'.op = "to_dict") => dumped' = dumped ]_vars

\* to_dict after value was assigned 7 and a later assignment to it failed
C8_Witness ==
  /\ lastM.op = "to_dict"
  /\ built = NoInst
  /\ DOMAIN dumped = Fields
  /\ dumped["value"] = IntV(7)
  /\ dumped["name"] = StrV("42")
  /\ dumped["color"] = StrV("blue")

====
